---- MODULE Spec2Model ----
(***************************************************************************)
(* Model of the two helpers of github-helpers that do algorithmic work:    *)
(*   - generateComponentMatrix (src/src/helpers/generate-component-matrix.ts) *)
(*     with sourceLocation, sourceLocationDir and findRoot;                 *)
(*   - MultisigsCollector (src/src/helpers/backstage-multisig-metrics.ts).  *)
(* A JavaScript string is a sequence of one-character strings, so that      *)
(* split, join, slice and startsWith are computed character by character.   *)
(* An optional value (undefined or a value) is a sequence of length 0 or 1. *)
(***************************************************************************)
EXTENDS Integers, Sequences, FiniteSets, TLC

VARIABLES helper, pc,
          catalog, changedFiles, eventName, markers,
          contractItems, changedContracts, forceAll,
          idx, fileName, dirs, checkParity, include,
          entities, systemComponents

vars == <<helper, pc, catalog, changedFiles, eventName, markers,
          contractItems, changedContracts, forceAll,
          idx, fileName, dirs, checkParity, include,
          entities, systemComponents>>

matrixVars == <<catalog, changedFiles, eventName, markers, contractItems,
                changedContracts, forceAll, idx, fileName, dirs, checkParity, include>>

-----------------------------------------------------------------------------
(* Bounds of the model *)

MaxItems == 2

MaxFiles == 1

MaxEntities == 10

-----------------------------------------------------------------------------
(* Optional values and sequence helpers *)

None == <<>>

Some(v) == <<v>>

IsSome(o) == Len(o) = 1

Get(o) == o[1]

Range(s) == {s[i] : i \in 1..Len(s)}

Min(S) == CHOOSE x \in S : \A y \in S : x <= y

Max(S) == CHOOSE x \in S : \A y \in S : x >= y

\* All sequences over S of length 0..n.
RECURSIVE SeqsUpTo(_, _)
SeqsUpTo(S, n) ==
  IF n = 0 THEN {<<>>}
  ELSE LET shorter == SeqsUpTo(S, n - 1)
       IN  shorter \cup {Append(s, x) : s \in {t \in shorter : Len(t) = n - 1}, x \in S}

\* The sequences of pairwise distinct members of S of length 0..n.
Arrangements(S, n) ==
  {s \in SeqsUpTo(S, n) : \A i, j \in 1..Len(s) : i # j => s[i] # s[j]}

-----------------------------------------------------------------------------
(* JavaScript string and array operations *)

\* String.prototype.startsWith
StartsWith(s, p) == Len(p) <= Len(s) /\ SubSeq(s, 1, Len(p)) = p

\* String.prototype.split('/') : "" splits to [""], "a/" to ["a", ""].
\* The segments lie between consecutive separators.
Split(s) ==
  LET cuts == {i \in 1..Len(s) : s[i] = "/"}
      n == Cardinality(cuts)
      cut == [k \in 1..n |-> CHOOSE c \in cuts : Cardinality({d \in cuts : d < c}) = k - 1]
  IN  [k \in 1..(n + 1) |->
         SubSeq(s, IF k = 1 THEN 1 ELSE cut[k - 1] + 1,
                   IF k = n + 1 THEN Len(s) ELSE cut[k] - 1)]

\* Array.prototype.join('/')
Join(segs) ==
  LET joined[k \in 0..Len(segs)] ==
        IF k = 0 THEN <<>>
        ELSE IF k = 1 THEN segs[1]
        ELSE joined[k - 1] \o <<"/">> \o segs[k]
  IN  joined[Len(segs)]

\* Array.prototype.slice(from, -1) with a zero-based from
SliceToLast(a, from) == SubSeq(a, from + 1, Len(a) - 1)

\* Array.prototype.pop : the array without its last element; [] stays [].
Pop(a) == SubSeq(a, 1, Len(a) - 1)

\* path.join('./', ...dirs, rootFile) up to the marker file's directory: empty
\* segments are skipped and the leading './' is normalised away, so the result
\* is the list of non-empty segments.
JoinedDir(a) == SelectSeq(a, LAMBDA seg : seg # <<>>)

-----------------------------------------------------------------------------
(* generate-component-matrix.ts : inputs *)

\* `url:${repoUrl}` with repoUrl = GITHUB_SERVER_URL/owner/repo = "h://g/o/r"
UrlThisRepo == <<"u","r","l",":","h",":","/","/","g","/","o","/","r">>

\* the same for another repository, "url:h://g/o/q"
UrlOtherRepo == <<"u","r","l",":","h",":","/","/","g","/","o","/","q">>

\* "/t/m/" : the tree and branch segments of a source-location URL
TreeBranch == <<"/","t","/","m","/">>

\* Repository-relative locations "a/b/", "a/", "ab/" and "" (the repository root)
LocAB == <<"a","/","b","/">>

LocA == <<"a","/">>

LocAb == <<"a","b","/">>

LocRoot == <<>>

Item(name, type, tags, annotation) ==
  [name |-> name, type |-> type, tags |-> tags, annotation |-> annotation]

\* The catalog entities the matrix helper may be handed.
CatalogItems ==
  { Item("k1", "contract", Some(<<"ethereum">>), Some(UrlThisRepo \o TreeBranch \o LocAB)),
    Item("k2", "contract", Some(<<"near">>),     Some(UrlThisRepo \o TreeBranch \o LocA)),
    Item("k3", "contract", Some(<<"ethereum", "aurora">>), Some(UrlThisRepo \o TreeBranch \o LocAb)),
    Item("k4", "contract", Some(<<>>),           Some(UrlThisRepo \o TreeBranch \o LocRoot)),
    Item("k5", "service",  Some(<<"ethereum">>), Some(UrlThisRepo \o TreeBranch \o LocA)),
    Item("k6", "contract", Some(<<"ethereum">>), Some(UrlOtherRepo \o TreeBranch \o LocA)),
    Item("k7", "contract", Some(<<"ethereum">>), None),
    Item("k8", "contract", None,                 Some(UrlThisRepo \o TreeBranch \o LocA)) }

\* Changed files "a/f" and "ab/f", relative to the repository root
ChangedFilePaths == { <<"a","/","f">>, <<"a","b","/","f">> }

\* Directories (as lists of path segments) that may hold a package.json:
\* the repository root, a and a/b.
MarkerDirs == { <<>>, << <<"a">> >>, << <<"a">>, <<"b">> >> }

EventNames == {"pull_request", "push"}

-----------------------------------------------------------------------------
(* generate-component-matrix.ts : functions *)

\* sourceLocation: the source-location annotation, undefined without one
sourceLocation(entity) == entity.annotation

\* sourceLocationDir: loc.split('/').slice(7, -1).join('/')
sourceLocationDir(entity) ==
  Join(SliceToLast(Split(Get(sourceLocation(entity))), 7))

\* fs.existsSync(path.join('./', ...dirs, rootFile))
existsSync(fs, a) == JoinedDir(a) \in fs

\* findRoot's return value: dirs.length > 0 ? dirs.join('/') : './'
findRootResult(a) == IF Len(a) > 0 THEN Join(a) ELSE <<".", "/">>

\* contractItems: the source-location filter, then the type filter
ContractItems(items) ==
  SelectSeq(SelectSeq(items,
                      LAMBDA item : /\ IsSome(sourceLocation(item))
                                    /\ StartsWith(Get(sourceLocation(item)), UrlThisRepo)),
            LAMBDA item : item.type = "contract")

\* changedContracts, as the set of positions in contractItems of its members
ChangedContracts(cItems, files) ==
  {i \in 1..Len(cItems) :
     \E f \in 1..Len(files) : StartsWith(files[f], Get(sourceLocation(cItems[i])))}

\* Array.prototype.includes on the tags
Includes(a, x) == \E i \in 1..Len(a) : a[i] = x

\* RunSlither without the forceAll disjunct
RunSlitherChangedOnly(item, force, changed) ==
  (~\E i \in 1..Len(Get(item.tags)) : Get(item.tags)[i] = "near") /\ changed

\* runSlither = isSolidity && (forceAll || changedContracts.includes(item))
RunSlither(item, force, changed) ==
  (~Includes(Get(item.tags), "near")) /\ (force \/ changed)

\* the matrix entry the map callback returns
Entry(item, root, flag) ==
  [name |-> item.name, tags |-> Get(item.tags), path |-> sourceLocationDir(item),
   nodeRoot |-> root, runSlither |-> flag]

\* Emit as a filter: only the entries marked for validation are kept
EmitMarkedOnly(inc, entry) == IF entry.runSlither THEN Append(inc, entry) ELSE inc

\* contractItems.map collects one returned entry
Emit(inc, entry) == Append(inc, entry)

-----------------------------------------------------------------------------
(* generate-component-matrix.ts : steps *)

InitMatrix ==
  /\ helper = "generateComponentMatrix"
  /\ pc = "start"
  /\ catalog \in Arrangements(CatalogItems, MaxItems)
  /\ changedFiles \in SeqsUpTo(ChangedFilePaths, MaxFiles)
  /\ eventName \in EventNames
  /\ markers \in SUBSET MarkerDirs
  /\ contractItems = <<>>
  /\ changedContracts = {}
  /\ forceAll = FALSE
  /\ idx = 1
  /\ fileName = <<>>
  /\ dirs = <<>>
  /\ checkParity = FALSE
  /\ include = <<>>
  /\ entities = <<>>
  /\ systemComponents = <<>>

\* lines 82-112: fetch, filter the contract items, match the changed files
SelectContracts ==
  /\ helper = "generateComponentMatrix"
  /\ pc = "start"
  /\ contractItems' = ContractItems(catalog)
  /\ changedContracts' = ChangedContracts(ContractItems(catalog), changedFiles)
  /\ forceAll' = (eventName # "pull_request")
  /\ pc' = "map"
  /\ UNCHANGED <<helper, catalog, changedFiles, eventName, markers, idx, fileName,
                 dirs, checkParity, include, entities, systemComponents>>

\* lines 115-124: the map callback up to its call of findRoot; tags!.includes
\* throws a TypeError when the item has no tags
MapItem ==
  /\ pc = "map"
  /\ idx <= Len(contractItems)
  /\ IF IsSome(contractItems[idx].tags)
       THEN /\ fileName' = sourceLocationDir(contractItems[idx])
            /\ dirs' = Split(sourceLocationDir(contractItems[idx]))
            /\ pc' = "findRoot"
       ELSE /\ pc' = "error"
            /\ UNCHANGED <<fileName, dirs>>
  /\ UNCHANGED <<helper, catalog, changedFiles, eventName, markers, contractItems,
                 changedContracts, forceAll, idx, checkParity, include, entities,
                 systemComponents>>

\* lines 50-63: one iteration of findRoot's loop.  The loop condition
\* dirs.length >= 0 is true of every array, and the finally block pops on the
\* break as well.  checkParity is the parity of the `checking:` lines logged.
FindRootIterate ==
  /\ pc = "findRoot"
  /\ checkParity' = ~checkParity
  /\ dirs' = Pop(dirs)
  /\ pc' = IF existsSync(markers, dirs) THEN "return" ELSE "findRoot"
  /\ UNCHANGED <<helper, catalog, changedFiles, eventName, markers, contractItems,
                 changedContracts, forceAll, idx, fileName, include, entities,
                 systemComponents>>

\* lines 64-67 and 120-126: findRoot returns and the callback returns its entry
FindRootReturn ==
  /\ pc = "return"
  /\ include' = Emit(include,
                     Entry(contractItems[idx], findRootResult(dirs),
                           RunSlither(contractItems[idx], forceAll,
                                      idx \in changedContracts)))
  /\ idx' = idx + 1
  /\ pc' = "map"
  /\ UNCHANGED <<helper, catalog, changedFiles, eventName, markers, contractItems,
                 changedContracts, forceAll, fileName, dirs, checkParity, entities,
                 systemComponents>>

\* lines 114-128: the map is over, the matrix is returned
ReturnMatrix ==
  /\ pc = "map"
  /\ idx > Len(contractItems)
  /\ pc' = "done"
  /\ UNCHANGED <<helper, matrixVars, entities, systemComponents>>

-----------------------------------------------------------------------------
(* backstage-multisig-metrics.ts : entities *)

\* An entity reference string "kind:namespace/name" is the triple of its parts.
Ref(kind, name) == <<kind, "default", name>>

Rel(type, targetRef) == [type |-> type, targetRef |-> targetRef]

RELATION_OWNED_BY == "ownedBy"

RELATION_HAS_PART == "hasPart"

Ent(kind, name, title, type, system, owner, relations) ==
  [kind |-> kind, name |-> name, title |-> title, type |-> type,
   system |-> system, owner |-> owner, relations |-> relations]

Sys1 == Ent("System", "s1", Some("Sys One"), "", None, None,
          << Rel(RELATION_HAS_PART, Ref("component", "c1")),
             Rel(RELATION_HAS_PART, Ref("resource", "r1")) >>)

\* a second entity with Sys1's kind and name, hence Sys1's reference
Sys1Dup == Ent("System", "s1", None, "", None, None, <<>>)

Sys2 == Ent("System", "s2", None, "", None, None,
          << Rel(RELATION_HAS_PART, Ref("component", "c2")),
             Rel(RELATION_HAS_PART, Ref("component", "c1")) >>)

Comp1 == Ent("Component", "c1", Some("Zeta"), "service", None, None, <<>>)

Comp2 == Ent("Component", "c2", None, "service", None, None, <<>>)

Api1 == Ent("API", "a1", None, "multisig-deployment", Some(Ref("system", "s1")), None,
          << Rel("apiProvidedBy", Ref("component", "c1")),
             Rel(RELATION_OWNED_BY, Ref("user", "u1")),
             Rel(RELATION_OWNED_BY, Ref("group", "g1")) >>)

Api2 == Ent("API", "a2", None, "multisig-deployment", Some(Ref("system", "s1")), None,
          << Rel(RELATION_OWNED_BY, Ref("user", "u2")),
             Rel("apiProvidedBy", Ref("component", "c1")),
             Rel(RELATION_OWNED_BY, Ref("user", "u1")) >>)

Api3 == Ent("API", "a3", None, "multisig-deployment", Some(Ref("system", "s2")), None,
          << Rel("apiProvidedBy", Ref("component", "c2")),
             Rel(RELATION_OWNED_BY, Ref("group", "g1")) >>)

\* an API that is no multisig deployment
Api4 == Ent("API", "a4", None, "openapi", Some(Ref("system", "s2")), None,
          << Rel("apiProvidedBy", Ref("component", "c1")),
             Rel(RELATION_OWNED_BY, Ref("user", "u1")) >>)

User1 == Ent("User", "u1", None, "", None, Some(Ref("group", "o1")), <<>>)

User2 == Ent("User", "u2", None, "", None, Some(Ref("group", "o2")), <<>>)

Owner1 == Ent("Group", "o1", None, "", None, None, <<>>)

Owner2 == Ent("Group", "o2", None, "", None, None, <<>>)

Group1 == Ent("Group", "g1", None, "", None, None, <<>>)

\* The entities the catalog may return, in one catalog order.
Universe == <<Sys1, Sys1Dup, Sys2, Comp1, Comp2, Api1, Api2, Api3, Api4, User1, User2, Owner1, Owner2, Group1>>

\* The members of Universe at the positions S, in ascending or descending order.
RECURSIVE Pick(_, _)
Pick(S, descending) ==
  IF S = {} THEN <<>>
  ELSE LET i == IF descending THEN Max(S) ELSE Min(S)
       IN  <<Universe[i]>> \o Pick(S \ {i}, descending)

-----------------------------------------------------------------------------
(* @backstage/catalog-model and String.prototype.localeCompare *)

\* toLocaleLowerCase('en-US') on the kinds and names in use
toLowerCase(s) ==
  CASE s = "API" -> "api"
    [] s = "System" -> "system"
    [] s = "Component" -> "component"
    [] s = "User" -> "user"
    [] s = "Group" -> "group"
    [] OTHER -> s

\* stringifyEntityRef: kind, namespace (default) and name, lower-cased
stringifyEntityRef(e) == <<toLowerCase(e.kind), "default", toLowerCase(e.name)>>

\* parseEntityRef of a full reference string
parseEntityRef(ref) == [kind |-> ref[1], namespace |-> ref[2], name |-> ref[3]]

\* The strings in use, in collation order
Collation ==
  << "a1", "a2", "a3", "a4", "api", "c1", "c2", "component", "default", "g1", "group",
     "o1", "o2", "r1", "resource", "s1", "s2", "system", "u1", "u2", "user" >>

\* the rank of a string in the collation order: a.localeCompare(b) has the
\* sign of Rank(a) - Rank(b)
Rank(s) == CHOOSE i \in 1..Len(Collation) : Collation[i] = s

\* the same for reference strings, compared part by part
RefRank(ref) ==
  (Rank(ref[1]) * (Len(Collation) + 1) + Rank(ref[2])) * (Len(Collation) + 1) + Rank(ref[3])

\* Array.prototype.sort by a comparator on integer keys: stable, ascending.
\* keys[i] is the key of s[i].
StableSort(s, keys) ==
  LET n == Len(s)
      pos(i) == 1 + Cardinality({j \in 1..n : \/ keys[j] < keys[i]
                                              \/ (keys[j] = keys[i] /\ j < i)})
  IN  [p \in 1..n |-> s[CHOOSE i \in 1..n : pos(i) = p]]

\* Array.prototype.map
Map(s, F(_)) == [i \in 1..Len(s) |-> F(s[i])]

\* [...new Set(list)] : the first occurrences, in order
Dedup(list) ==
  LET keep == SelectSeq([i \in 1..Len(list) |-> i],
                        LAMBDA i : ~\E j \in 1..(i - 1) : list[j] = list[i])
  IN  [k \in 1..Len(keep) |-> list[keep[k]]]

\* Array.prototype.find on this.entities by reference: the first match
Find(ents, ref) ==
  LET hits == {i \in 1..Len(ents) : stringifyEntityRef(ents[i]) = ref}
  IN  IF hits = {} THEN None ELSE Some(ents[Min(hits)])

-----------------------------------------------------------------------------
(* backstage-multisig-metrics.ts : MultisigsCollector *)

\* this.multisigs (line 49)
Multisigs(ents) ==
  SelectSeq(ents, LAMBDA item : item.kind = "API" /\ item.type = "multisig-deployment")

\* normalizeEntities: distinct, sorted by localeCompare
normalizeEntities(list) ==
  LET d == Dedup(list) IN StableSort(d, [i \in 1..Len(d) |-> RefRank(d[i])])

\* title || name
TitleOf(e) == IF IsSome(e.title) THEN Get(e.title) ELSE e.name

\* SignerRelations without the test of the target's kind
SignerRelationsAnyKind(multisig) ==
  SelectSeq(multisig.relations, LAMBDA r : r.type = RELATION_OWNED_BY)

\* line 96: the ownedBy relations whose target is no group
SignerRelations(multisig) ==
  SelectSeq(multisig.relations,
            LAMBDA r : r.type = RELATION_OWNED_BY /\ parseEntityRef(r.targetRef).kind # "group")

\* line 99: the owner of a signer; find on an undefined reference finds nothing
OwnerOf(ents, signer) ==
  IF IsSome(signer.owner) THEN Find(ents, Get(signer.owner)) ELSE None

\* collectSigners throws a TypeError: signer.spec of an undefined signer, or
\* a.owner.metadata of an undefined owner in the comparator, which sort calls
\* only on an array of two or more
collectSignersThrows(ents, multisig) ==
  LET rels == SignerRelations(multisig)
  IN  \/ \E i \in 1..Len(rels) : Find(ents, rels[i].targetRef) = None
      \/ /\ Len(rels) >= 2
         /\ \E i \in 1..Len(rels) : OwnerOf(ents, Get(Find(ents, rels[i].targetRef))) = None

\* collectSigners, when it does not throw
collectSigners(ents, multisig) ==
  LET infos == Map(SignerRelations(multisig),
                   LAMBDA r : [signer |-> Get(Find(ents, r.targetRef)),
                               owner |-> OwnerOf(ents, Get(Find(ents, r.targetRef)))])
  IN  StableSort(infos,
                 [i \in 1..Len(infos) |->
                    IF IsSome(infos[i].owner) THEN Rank(Get(infos[i].owner).name) ELSE 0])

\* lines 74-76: the hasPart relations of a system whose target is a component
ComponentRefs(system) ==
  SelectSeq(system.relations,
            LAMBDA r : r.type = RELATION_HAS_PART /\ parseEntityRef(r.targetRef).kind = "component")

\* line 84: the multisigs with an apiProvidedBy relation to the component
ProvidedBy(ents, targetRef) ==
  SelectSeq(Multisigs(ents),
            LAMBDA item : \E i \in 1..Len(item.relations) :
                             /\ item.relations[i].type = "apiProvidedBy"
                             /\ item.relations[i].targetRef = targetRef)

\* collectComponents throws: component.metadata of an undefined component, or
\* collectSigners throws
collectComponentsThrows(ents, system) ==
  \E i \in 1..Len(ComponentRefs(system)) :
     LET ref == ComponentRefs(system)[i].targetRef
     IN  \/ Find(ents, ref) = None
         \/ \E k \in 1..Len(ProvidedBy(ents, ref)) :
               collectSignersThrows(ents, ProvidedBy(ents, ref)[k])

\* collectComponents without its sort: the groups in relation order
collectComponentsUnsorted(ents, system) ==
  Map(ComponentRefs(system),
      LAMBDA componentRef :
        [title |-> TitleOf(Get(Find(ents, componentRef.targetRef))),
         component |-> Get(Find(ents, componentRef.targetRef)),
         multisigs |-> Map(ProvidedBy(ents, componentRef.targetRef),
                           LAMBDA ms : [entity |-> ms,
                                        signers |-> collectSigners(ents, ms)])])

\* collectComponents, when it does not throw
collectComponents(ents, system) ==
  LET groups == Map(ComponentRefs(system),
                    LAMBDA componentRef :
                      [title |-> TitleOf(Get(Find(ents, componentRef.targetRef))),
                       component |-> Get(Find(ents, componentRef.targetRef)),
                       multisigs |-> Map(ProvidedBy(ents, componentRef.targetRef),
                                         LAMBDA ms : [entity |-> ms,
                                                      signers |-> collectSigners(ents, ms)])])
  IN  StableSort(groups, [i \in 1..Len(groups) |-> Rank(groups[i].component.name)])

\* line 58: the distinct system references of the multisigs, sorted
SystemRefs(ents) ==
  normalizeEntities(Map(Multisigs(ents), LAMBDA item : Get(item.system)))

\* collectSystems throws: system.relations of an undefined system, or
\* collectComponents throws
collectSystemsThrows(ents) ==
  \E i \in 1..Len(SystemRefs(ents)) :
     \/ Find(ents, SystemRefs(ents)[i]) = None
     \/ collectComponentsThrows(ents, Get(Find(ents, SystemRefs(ents)[i])))

\* collectSystems, when it does not throw
collectSystems(ents) ==
  LET groups == Map(SystemRefs(ents),
                    LAMBDA systemRef :
                      [title |-> TitleOf(Get(Find(ents, systemRef))),
                       system |-> Get(Find(ents, systemRef)),
                       components |-> collectComponents(ents, Get(Find(ents, systemRef)))])
  IN  StableSort(groups, [i \in 1..Len(groups) |-> Rank(groups[i].system.name)])

-----------------------------------------------------------------------------
(* backstage-multisig-metrics.ts : steps *)

InitMultisigs ==
  /\ helper = "collectMultisigs"
  /\ pc = "start"
  /\ \E S \in SUBSET (1..Len(Universe)) :
       /\ Cardinality(S) <= MaxEntities
       /\ \E descending \in BOOLEAN : entities = Pick(S, descending)
  /\ systemComponents = <<>>
  /\ catalog = <<>>
  /\ changedFiles = <<>>
  /\ eventName = "push"
  /\ markers = {}
  /\ contractItems = <<>>
  /\ changedContracts = {}
  /\ forceAll = FALSE
  /\ idx = 1
  /\ fileName = <<>>
  /\ dirs = <<>>
  /\ checkParity = FALSE
  /\ include = <<>>

\* lines 47-51 and 117: new MultisigsCollector(entities); a TypeError thrown
\* while collecting leaves no collector
Construct ==
  /\ helper = "collectMultisigs"
  /\ pc = "start"
  /\ IF collectSystemsThrows(entities)
       THEN /\ pc' = "error"
            /\ UNCHANGED systemComponents
       ELSE /\ pc' = "done"
            /\ systemComponents' = collectSystems(entities)
  /\ UNCHANGED <<helper, matrixVars, entities>>

-----------------------------------------------------------------------------

Init == InitMatrix \/ InitMultisigs

Next ==
  \/ SelectContracts
  \/ MapItem
  \/ FindRootIterate
  \/ FindRootReturn
  \/ ReturnMatrix
  \/ Construct

Spec == Init /\ [][Next]_vars

\* The steps of generateComponentMatrix
NextMatrix ==
  \/ SelectContracts
  \/ MapItem
  \/ FindRootIterate
  \/ FindRootReturn
  \/ ReturnMatrix

\* generateComponentMatrix alone.  findRoot's loop is synchronous code with
\* nothing to wait for: while its condition holds, the next iteration runs.
FairSpec == InitMatrix /\ [][NextMatrix]_vars /\ WF_vars(FindRootIterate)

-----------------------------------------------------------------------------
(* Claims about findRoot *)

\* The levels of findRoot's walk from path: the leading parts of its segments.
WalkLevels(path) == {SubSeq(Split(path), 1, k) : k \in 0..Len(Split(path))}

\* The lengths of the walk's levels below the repository root that hold the marker.
MarkerLevels(path) ==
  {k \in 1..Len(Split(path)) :
     /\ JoinedDir(SubSeq(Split(path), 1, k)) # <<>>
     /\ JoinedDir(SubSeq(Split(path), 1, k)) \in markers}

\* C1: findRoot returns the deepest directory on the walk from path that
\* directly contains the marker file.
C1_FindRootReturnsDeepestMarkerDir ==
  (pc = "return" /\ MarkerLevels(fileName) # {})
    => findRootResult(dirs) = Join(SubSeq(Split(fileName), 1, Max(MarkerLevels(fileName))))

\* C2: when no directory from path up to and including the repository root
\* contains the marker file, findRoot eventually returns the repository root.
C2_FindRootReturnsRootWithoutMarker ==
  (pc = "findRoot" /\ \A level \in WalkLevels(fileName) : JoinedDir(level) \notin markers)
    ~> (pc = "return" /\ findRootResult(dirs) = <<".", "/">>)

-----------------------------------------------------------------------------
(* Claims about the matrix *)

Selected == pc \in {"map", "findRoot", "return", "done"} /\ helper = "generateComponentMatrix"

\* C3: with forceAll false a candidate is impacted exactly when some changed
\* file's path starts with the candidate's source directory.
C3_ImpactedIffChangedFileUnderSourceDir ==
  (Selected /\ ~forceAll)
    => \A i \in 1..Len(contractItems) :
          (i \in changedContracts)
            <=> \E f \in 1..Len(changedFiles) :
                   StartsWith(changedFiles[f], sourceLocationDir(contractItems[i]))

\* C4 as stated: with forceAll true every candidate in the matrix is marked
\* for validation, whatever its tags and the changed files.
C4_ForceAllMarksEveryCandidate ==
  (pc = "done" /\ forceAll) => \A i \in 1..Len(include) : include[i].runSlither

\* C4 amended: with forceAll true a candidate in the matrix is marked for
\* validation exactly when its tags do not include "near", whatever the
\* changed files.
C4_ForceAllMarksEveryNonNearCandidate ==
  forceAll => \A i \in 1..Len(include) :
                 include[i].runSlither <=> ~Includes(include[i].tags, "near")

C4_Witness ==
  /\ pc = "done"
  /\ forceAll
  /\ changedFiles = <<>>
  /\ \E i, j \in 1..Len(include) :
        /\ include[i].runSlither
        /\ ~include[j].runSlither
        /\ Includes(include[j].tags, "near")

\* the candidates of the matrix: the contract entities of this repository
IsCandidate(item) ==
  /\ item.type = "contract"
  /\ IsSome(item.annotation)
  /\ StartsWith(Get(item.annotation), UrlThisRepo)

\* C5: the returned matrix has exactly one entry per candidate, in candidate
\* order, whatever the impact decision, and no entry for a non-candidate.
C5_OneEntryPerCandidate ==
  pc = "done" /\ helper = "generateComponentMatrix"
    => LET candidates == SelectSeq(catalog, IsCandidate)
       IN  /\ Len(include) = Len(candidates)
           /\ \A i \in 1..Len(include) :
                 /\ include[i].name = candidates[i].name
                 /\ include[i].tags = Get(candidates[i].tags)

C5_Witness ==
  /\ pc = "done"
  /\ ~forceAll
  /\ Len(catalog) > Len(include)
  /\ \E i \in 1..Len(include) : ~include[i].runSlither /\ ~Includes(include[i].tags, "near")

-----------------------------------------------------------------------------
(* Claims about the hierarchy *)

Built == helper = "collectMultisigs" /\ pc = "done"

NoDuplicateRefs(ents) ==
  \A i, j \in 1..Len(ents) :
     i # j => stringifyEntityRef(ents[i]) # stringifyEntityRef(ents[j])

\* the list with its members at i and j exchanged
Swap(s, i, j) ==
  [k \in 1..Len(s) |-> IF k = i THEN s[j] ELSE IF k = j THEN s[i] ELSE s[k]]

\* the artifact entries and the signer entries of a hierarchy
ArtifactInfos(sc) ==
  UNION {UNION {Range(c.multisigs) : c \in Range(g.components)} : g \in Range(sc)}

SignerInfos(sc) == UNION {Range(m.signers) : m \in ArtifactInfos(sc)}

\* C6: the hierarchy is the same for every permutation of the input entity
\* list.  Stated for exchanges of two entities, which generate the
\* permutations, and already for entity sets with unique references.
C6_HierarchyIndependentOfInputOrder ==
  (Built /\ NoDuplicateRefs(entities))
    => \A i, j \in 1..Len(entities) :
          /\ ~collectSystemsThrows(Swap(entities, i, j))
          /\ collectSystems(Swap(entities, i, j)) = systemComponents

\* C7: no hierarchy is produced that contains an undefined owner (nor an
\* undefined system, component or signer, which the model's hierarchy cannot
\* hold): an unresolved mandatory reference fails the build.
C7_NoHierarchyWithUndefinedOwner ==
  Built => \A si \in SignerInfos(systemComponents) : IsSome(si.owner)

\* C8: no hierarchy is produced from an input in which two entities have the
\* same reference string: the build fails instead of resolving the reference
\* to one of them.  Stated for the references the build resolved.
C8_DuplicateReferenceFailsBuild ==
  Built => \A g \in Range(systemComponents) :
              Cardinality({i \in 1..Len(entities) :
                             stringifyEntityRef(entities[i]) = stringifyEntityRef(g.system)}) = 1

\* the ownedBy relations of an artifact that do not target a group
NonGroupOwners(artifact) ==
  {i \in 1..Len(artifact.relations) :
     /\ artifact.relations[i].type = "ownedBy"
     /\ artifact.relations[i].targetRef[1] # "group"}

Resolves(ref, e) == e \in Range(entities) /\ stringifyEntityRef(e) = ref

ScenarioEntities == {Sys1, Comp1, Api1, User1, Owner1, Group1}

ScenarioHierarchy ==
  << [title |-> "Sys One", system |-> Sys1,
      components |->
        << [title |-> "Zeta", component |-> Comp1,
            multisigs |-> << [entity |-> Api1,
                              signers |-> << [signer |-> User1, owner |-> Some(Owner1)] >>] >>] >>] >>

\* C9: the signers of an artifact are exactly its ownedBy targets that are no
\* group, each with the entity its declared owner resolves to; in the scenario
\* of one system, component, artifact, signer, owner and group the hierarchy is
\* system > component > artifact > [{signer, owner}].
C9_SignersAreNonGroupOwners ==
  /\ Built =>
       \A m \in ArtifactInfos(systemComponents) :
          /\ Len(m.signers) = Cardinality(NonGroupOwners(m.entity))
          /\ {stringifyEntityRef(si.signer) : si \in Range(m.signers)}
               = {m.entity.relations[i].targetRef : i \in NonGroupOwners(m.entity)}
          /\ \A si \in Range(m.signers) :
                /\ si.signer \in Range(entities)
                /\ si.signer.kind # "Group"
                /\ IF IsSome(si.signer.owner)
                        /\ \E e \in Range(entities) : Resolves(Get(si.signer.owner), e)
                     THEN IsSome(si.owner) /\ Resolves(Get(si.signer.owner), Get(si.owner))
                     ELSE si.owner = None
  /\ (helper = "collectMultisigs" /\ pc # "start" /\ Range(entities) = ScenarioEntities)
       => (pc = "done" /\ systemComponents = ScenarioHierarchy)

C9_Witness ==
  /\ Built
  /\ Range(entities) = ScenarioEntities
  /\ \E m \in ArtifactInfos(systemComponents) : Len(m.signers) = 1

\* s is in non-decreasing order of the names key gives its members
SortedBy(s, key(_)) ==
  \A i, j \in 1..Len(s) : i < j => Rank(key(s[i])) <= Rank(key(s[j]))

\* the system references declared by the root artifacts
RootSystemRefs ==
  {Get(e.system) : e \in {x \in Range(entities) :
                            x.kind = "API" /\ x.type = "multisig-deployment"}}

\* C10: systems are in order of system name, the components of each system
\* in order of component name, the signers of each artifact in order of the
\* resolved owner's name, and there is exactly one SystemGroup per distinct
\* system reference of a root artifact.
C10_LevelsSortedOneGroupPerSystem ==
  Built =>
    /\ SortedBy(systemComponents, LAMBDA g : g.system.name)
    /\ \A g \in Range(systemComponents) : SortedBy(g.components, LAMBDA c : c.component.name)
    /\ \A m \in ArtifactInfos(systemComponents) :
          /\ Len(m.signers) >= 2 => \A si \in Range(m.signers) : IsSome(si.owner)
          /\ Len(m.signers) >= 2 => SortedBy(m.signers, LAMBDA si : Get(si.owner).name)
    /\ Len(systemComponents) = Cardinality(RootSystemRefs)
    /\ {stringifyEntityRef(g.system) : g \in Range(systemComponents)} = RootSystemRefs

C10_Witness ==
  /\ Built
  /\ Len(systemComponents) >= 2
  /\ \E g \in Range(systemComponents) : Len(g.components) >= 2
  /\ \E m \in ArtifactInfos(systemComponents) :
        /\ Len(m.signers) >= 2
        /\ stringifyEntityRef(m.signers[1].signer)
              # m.entity.relations[Min(NonGroupOwners(m.entity))].targetRef

====
